---------------------------- MODULE Spec2Model ----------------------------
(***************************************************************************)
(* A model of app/main/plugins.js of dext: plugin schema resolution        *)
(* (applyModuleProperties), item normalisation (connectItems) and query    *)
(* dispatch with caching (queryResults).                                    *)
(*                                                                         *)
(* Representation of JavaScript values.                                    *)
(*  - An object is a function from its own keys to their values; a key    *)
(*    that is absent (or whose value is undefined) is not in the DOMAIN.   *)
(*  - A nested object is held by reference: the value is an index into a   *)
(*    heap (a sequence of objects), so aliasing and mutation are visible.  *)
(*  - A file-system path or icon path is the sequence of the segments of   *)
(*    the string split on "/": "/plugins/foo" is <<"", "plugins", "foo">>, *)
(*    "./icon.png" is <<".", "icon.png">>, the empty string is <<>>.       *)
(*  - Any other string is a TLA+ string.                                   *)
(***************************************************************************)
EXTENDS Integers, Sequences, FiniteSets, TLC

VARIABLES
    heap,       \* connectItems: the object store (sequence of objects)
    rawItems,   \* connectItems: the items argument (sequence of references)
    cplugin,    \* connectItems: the plugin argument
    heap0,      \* connectItems: the object store as it was before the call
    cplugin0,   \* connectItems: the plugin argument as it was before the call
    outItems,   \* connectItems: the returned array (sequence of references)
    cpc,        \* connectItems: "ready" before the call, "done" after it
    calls,      \* queryResults: one record per call made, in call order
    cache,      \* CacheConf stores: config name -> (key -> cached value)
    spawned,    \* the fork() events so far, in order
    uncaught,   \* exceptions thrown out of event handlers and callbacks
    lstub,      \* applyModuleProperties: the plugin argument
    lstub0,     \* applyModuleProperties: the plugin argument before the call
    lfs,        \* applyModuleProperties: the plugin directory on disk
    lpc,        \* applyModuleProperties: where the call is
    ldesc,      \* applyModuleProperties: the value the promise resolved with
    lalias,     \* applyModuleProperties: that value is the plugin argument itself
    tdir,       \* isPluginATheme: the directory argument
    tpkg,       \* isPluginATheme: what loading <directory>/package.json gives
    tpc,        \* isPluginATheme: where the call is
    tresult     \* isPluginATheme: the value returned

cvars == <<heap, rawItems, cplugin, heap0, cplugin0, outItems, cpc>>
qvars == <<calls, cache, spawned, uncaught>>
lvars == <<lstub, lstub0, lfs, lpc, ldesc, lalias>>
tvars == <<tdir, tpkg, tpc, tresult>>
vars == <<cvars, qvars, lvars, tvars>>

(***************************************************************************)
(* Bounds of the model.                                                    *)
(***************************************************************************)
MaxItems == 2       \* longest items array handed to connectItems
MaxCalls == 2       \* number of queryResults calls in one behaviour
MaxObjects == 2     \* longest objects list of an info.plist
MaxKeywords == 2    \* longest keywords list of a package.json

(***************************************************************************)
(* Strings and paths.                                                      *)
(***************************************************************************)
EmptyObject == [k \in {} |-> 0]
EmptyPath == <<>>

Has(o, k) == k \in DOMAIN o

\* JavaScript truthiness of the string-valued property o[k].
TruthyStr(o, k) == Has(o, k) /\ o[k] # ""
\* JavaScript truthiness of the path-valued property o[k].
TruthyPath(o, k) == Has(o, k) /\ o[k] # EmptyPath

\* path.isAbsolute (POSIX): the string starts with "/".
IsAbsolute(p) == Len(p) >= 1 /\ p[1] = ""

\* is.url of is_js, on the strings of this model: a scheme, "//" and a host.
IsUrl(p) == Len(p) >= 3 /\ p[1] \in {"http:", "https:", "ftp:"} /\ p[2] = ""

\* Normalisation of the segments of an absolute path: "" and "." are dropped
\* and ".." removes the segment before it.
RECURSIVE NormalizeSegs(_, _)
NormalizeSegs(segs, acc) ==
    IF segs = <<>> THEN acc
    ELSE LET s == Head(segs) IN
         IF s = "" \/ s = "." THEN NormalizeSegs(Tail(segs), acc)
         ELSE IF s = ".."
              THEN NormalizeSegs(Tail(segs),
                                 IF acc = <<>> THEN acc
                                 ELSE SubSeq(acc, 1, Len(acc) - 1))
              ELSE NormalizeSegs(Tail(segs), Append(acc, s))

\* path.resolve(from, to) for an absolute `from`.
PathResolve(from, to) ==
    <<"">> \o NormalizeSegs(IF IsAbsolute(to) THEN to ELSE from \o to, <<>>)

\* path.basename(p): the last segment.
PathBasename(p) == IF p = <<>> THEN "" ELSE p[Len(p)]

(***************************************************************************)
(* Objects and the heap.                                                   *)
(***************************************************************************)
\* o with o[k] set to v (an assignment o.k = v).
Put(o, k, v) == [x \in DOMAIN o \cup {k} |-> IF x = k THEN v ELSE o[x]]

\* deepAssign(to, from) of deep-assign 2.0: every own key of `from` whose
\* value is neither undefined nor null is assigned to `to`.  A key that `to`
\* does not own yet receives the value itself, so a nested object is shared
\* by reference, not cloned.  (Keys `to` already owns are only ever
\* overwritten with strings by this program.)
DeepAssign(to, from) ==
    [k \in DOMAIN to \cup DOMAIN from |->
        IF k \in DOMAIN from THEN from[k] ELSE to[k]]

(***************************************************************************)
(* connectItems (plugins.js 122-144).                                      *)
(***************************************************************************)
\* A faulty icon rule: a URL is resolved against the plugin directory too.
ResolvedIconPathNoUrlTest(h, i, plugin) ==
    IF Has(i, "icon") /\ TruthyPath(h[i.icon], "path")
    THEN PathResolve(plugin.path, h[i.icon].path)
    ELSE EmptyPath

\* Lines 123-132: the local icon.path computed for raw item i.
ResolvedIconPath(h, i, plugin) ==
    IF Has(i, "icon") /\ TruthyPath(h[i.icon], "path")
    THEN LET p == h[i.icon].path IN
         IF ~IsUrl(p) THEN PathResolve(plugin.path, p) ELSE p
    ELSE EmptyPath

\* A faulty inheritance: the plugin's keyword and action only fill in for
\* an item that has none of its own.
ConnectItemKeepsOwn(h, r, plugin) ==
    LET i == h[r]
        iconPath == ResolvedIconPath(h, i, plugin)
        o1 == DeepAssign(EmptyObject, i)
        o2 == IF TruthyStr(plugin, "keyword") /\ ~Has(o1, "keyword")
              THEN Put(o1, "keyword", plugin.keyword) ELSE o1
        o3 == IF TruthyStr(plugin, "action") /\ ~Has(o2, "action")
              THEN Put(o2, "action", plugin.action) ELSE o2
        h1 == IF iconPath # EmptyPath
              THEN [h EXCEPT ![o3.icon] = Put(@, "path", iconPath)]
              ELSE h
    IN [heap |-> Append(h1, o3), ref |-> Len(h1) + 1]

\* Lines 133-143: the body of the map callback for the raw item at
\* reference r; yields the heap after it and the reference of newObject.
ConnectItem(h, r, plugin) ==
    LET i == h[r]
        iconPath == ResolvedIconPath(h, i, plugin)
        o1 == DeepAssign(EmptyObject, i)
        o2 == IF TruthyStr(plugin, "keyword")
              THEN Put(o1, "keyword", plugin.keyword) ELSE o1
        o3 == IF TruthyStr(plugin, "action")
              THEN Put(o2, "action", plugin.action) ELSE o2
        h1 == IF iconPath # EmptyPath
              THEN [h EXCEPT ![o3.icon] = Put(@, "path", iconPath)]
              ELSE h
    IN [heap |-> Append(h1, o3), ref |-> Len(h1) + 1]

\* items.map(...): the callback applied to each element in index order.
RECURSIVE ConnectFrom(_, _, _, _, _)
ConnectFrom(h, items, plugin, k, out) ==
    IF k > Len(items) THEN [heap |-> h, out |-> out]
    ELSE LET c == ConnectItem(h, items[k], plugin) IN
         ConnectFrom(c.heap, items, plugin, k + 1, Append(out, c.ref))

Reverse(seq) == [k \in 1..Len(seq) |-> seq[Len(seq) + 1 - k]]

\* A faulty connectItems: the result lists the items in reverse order.
ConnectItemsReversed(h, items, plugin) ==
    ConnectFrom(h, Reverse(items), plugin, 1, <<>>)

ConnectItems(h, items, plugin) == ConnectFrom(h, items, plugin, 1, <<>>)

\* The value of the item object at reference r, its icon object inlined.
Deref(h, r) ==
    [k \in DOMAIN h[r] |-> IF k = "icon" THEN h[h[r].icon] ELSE h[r][k]]

\* The objects of a list of item values placed in heap h: the icon object
\* (when the item has one) and then the item object, per item.
RECURSIVE Materialize(_, _, _)
Materialize(h, vals, refs) ==
    IF vals = <<>> THEN [heap |-> h, refs |-> refs]
    ELSE LET v == Head(vals) IN
         IF Has(v, "icon")
         THEN LET h1 == Append(h, v.icon)
                  h2 == Append(h1, Put(v, "icon", Len(h1)))
              IN Materialize(h2, Tail(vals), Append(refs, Len(h2)))
         ELSE LET h2 == Append(h, v)
              IN Materialize(h2, Tail(vals), Append(refs, Len(h2)))

(***************************************************************************)
(* The inputs of the model.                                                *)
(***************************************************************************)
PluginPath == <<"", "plugins", "foo">>

\* Icon objects a raw item may carry.
IconValues ==
    { EmptyObject,
      [path |-> EmptyPath],
      [path |-> <<".", "icon.png">>],
      [path |-> <<"..", "shared", "i.png">>, type |-> "file"],
      [path |-> <<"", "abs", "i.png">>],
      [path |-> <<"https:", "", "x.io", "y.png">>] }

\* The fields of a raw item other than its icon.
ItemBases ==
    { [title |-> "A"],
      [title |-> "A", subtitle |-> "s", keyword |-> "ik"],
      [title |-> "B", keyword |-> "ik", action |-> "ia"] }

RawItemValues ==
    ItemBases \cup { Put(b, "icon", ic) : b \in ItemBases, ic \in IconValues }

SeqsUpTo(S, n) == UNION { [1..m -> S] : m \in 0..n }

\* Plugin descriptors { path, name, isCore, schema, action, keyword }.
DescriptorBase(schema) ==
    [path |-> PluginPath, name |-> "foo", isCore |-> FALSE, schema |-> schema]

OptionalField(o, k, vals) == {o} \cup { Put(o, k, v) : v \in vals }

Descriptors(schema) ==
    UNION { OptionalField(d, "action", {"", "openurl"}) :
            d \in OptionalField(DescriptorBase(schema), "keyword", {"", "k"}) }

(***************************************************************************)
(* queryResults (plugins.js 155-217): values and environment.              *)
(***************************************************************************)
\* connectItems on item values: the objects are created, connected and read
\* back (the result is what the caller and the cache receive).
ConnectValues(vals, plugin) ==
    LET m == Materialize(<<>>, vals, <<>>)
        c == ConnectItems(m.heap, m.refs, plugin)
    IN [k \in 1..Len(c.out) |-> Deref(c.heap, c.out[k])]

\* args.join(' ')
\* A faulty join: empty tokens are dropped, which collapses the blanks
\* around them.
RECURSIVE JoinSkipsEmpty(_)
JoinSkipsEmpty(args) ==
    IF args = <<>> THEN ""
    ELSE IF args[1] = "" THEN JoinSkipsEmpty(Tail(args))
    ELSE LET rest == JoinSkipsEmpty(Tail(args))
         IN IF rest = "" THEN args[1] ELSE args[1] \o " " \o rest

RECURSIVE Join(_)
Join(args) ==
    IF args = <<>> THEN ""
    ELSE IF Len(args) = 1 THEN args[1]
    ELSE args[1] \o " " \o Join(Tail(args))

\* The JavaScript value null.
JsNull == [jsnull |-> TRUE]
Truthy(v) == v # JsNull

ItemA == [title |-> "A"]
ItemIcon == [title |-> "A", icon |-> [path |-> <<".", "icon.png">>]]

\* JSON.parse on the texts a child can have written: the documents below
\* parse to a value, every other text is a SyntaxError.
JsonDocuments ==
    ( "{\"items\":[{\"title\":\"A\"}]}" :> [items |-> <<ItemA>>] ) @@
    ( "{\"items\":[{\"title\":\"A\",\"icon\":{\"path\":\"./icon.png\"}}]}"
         :> [items |-> <<ItemIcon>>] ) @@
    ( "{\"items\":[]}" :> [items |-> <<>>] ) @@
    ( "{}" :> EmptyObject ) @@
    ( "null" :> JsNull )

JsonParses(text) == text \in DOMAIN JsonDocuments
JsonParse(text) == JsonDocuments[text]

\* What a child process does: the chunks it writes to stdout and its exit
\* code.
ChildRuns ==
    { [chunks |-> <<>>, code |-> 0],
      [chunks |-> <<>>, code |-> 1],
      [chunks |-> <<"{\"items\":", "[{\"title\":\"A\"}]}">>, code |-> 0],
      [chunks |-> <<"{}">>, code |-> 0],
      [chunks |-> <<"null">>, code |-> 0],
      [chunks |-> <<"Error: boom">>, code |-> 1] }

\* The values a native hook can produce.
HookValues == { [items |-> <<ItemIcon>>], EmptyObject }

\* The outcome of evaluating m.execute(q).
HookOutcomes ==
    { [kind |-> "value", value |-> v] : v \in HookValues \cup {JsNull} }
    \cup { [kind |-> "promise", settle |-> "resolve", value |-> v] :
           v \in HookValues \cup {JsNull} }
    \cup { [kind |-> "promise", settle |-> "reject", value |-> JsNull],
           [kind |-> "throw", value |-> JsNull] }

QAlfred ==
    [path |-> <<"", "plugins", "foo">>, name |-> "foo", isCore |-> FALSE,
     schema |-> "alfred", keyword |-> "k", action |-> "openurl"]
QDext ==
    [path |-> <<"", "core", "foo">>, name |-> "foo", isCore |-> TRUE,
     schema |-> "dext", keyword |-> "d", action |-> ""]
QValue ==
    [path |-> <<"", "plugins", "val">>, name |-> "val", isCore |-> FALSE,
     schema |-> "dext", keyword |-> "v"]
QStub ==
    [path |-> <<"", "plugins", "bar">>, name |-> "bar", isCore |-> FALSE]
QBroken ==
    [path |-> <<"", "plugins", "gone">>, name |-> "gone", isCore |-> FALSE,
     schema |-> "legacy"]

QueryPlugins == {QAlfred, QDext, QValue, QStub, QBroken}
ConfigNames == { PathBasename(p.path) : p \in QueryPlugins }

\* What require(path) yields for the plugins above: a module whose execute
\* export is a function, a plain value or absent, or no module at all.
Modules(path) ==
    IF path = QDext.path THEN [loads |-> TRUE, execute |-> "function"]
    ELSE IF path = QValue.path
    THEN [loads |-> TRUE, execute |-> "value",
          value |-> [items |-> <<ItemIcon>>]]
    ELSE IF path = QStub.path THEN [loads |-> TRUE, execute |-> "absent"]
    ELSE [loads |-> FALSE]

QueryArgs == { <<"a">>, <<"a", "b">> }

\* cacheConf.set(key, value) on the store named after the plugin directory.
CacheSet(c, plugin, key, value) ==
    [c EXCEPT ![PathBasename(plugin.path)] = Put(@, key, value)]

NoHook == [kind |-> "none", value |-> JsNull]

\* The record of a call that has just entered the Promise executor.
NewCall(plugin, args) ==
    [plugin |-> plugin, args |-> args, key |-> Join(args),
     branch |-> "", promise |-> "pending", result |-> <<>>,
     msg |-> "", run |-> <<>>, chunks |-> <<>>, code |-> 0,
     exited |-> FALSE, exitMsg |-> "", writes |-> 0, resolves |-> 0,
     hook |-> NoHook, executed |-> <<>>, connects |-> 0, parses |-> 0,
     resolvedBefore |-> { c \in 1..Len(calls) : calls[c].promise = "resolved" }]

(***************************************************************************)
(* queryResults: the operations.                                           *)
(***************************************************************************)
\* A faulty switch: every plugin that has a schema is forked.
DispatchForksAnySchema(plugin) ==
    IF Has(plugin, "schema") THEN "alfred" ELSE "default"

\* Line 166: the case of the switch that plugin.schema selects.
Dispatch(plugin) ==
    IF Has(plugin, "schema") /\ plugin.schema = "alfred"
    THEN "alfred" ELSE "default"

\* Lines 182-188: what the exit handler computes from the buffer msg.
\* JSON.parse throws on a text that is no document, and connectItems throws
\* when output.items is not an array.
ExitItems(msg, plugin) ==
    IF msg = "" THEN [threw |-> FALSE, items |-> <<>>, parses |-> 0, connects |-> 0]
    ELSE IF ~JsonParses(msg)
    THEN [threw |-> TRUE, items |-> <<>>, parses |-> 1, connects |-> 0]
    ELSE LET output == JsonParse(msg) IN
         IF ~Truthy(output)
         THEN [threw |-> FALSE, items |-> <<>>, parses |-> 1, connects |-> 0]
         ELSE IF ~Has(output, "items")
         THEN [threw |-> TRUE, items |-> <<>>, parses |-> 1, connects |-> 1]
         ELSE [threw |-> FALSE, items |-> ConnectValues(output.items, plugin),
               parses |-> 1, connects |-> 1]

\* Lines 199-203: the value of `output` for module m, given what a call of
\* its execute function yields.
HookOutput(m, outcome) ==
    IF m.execute = "function" THEN outcome
    ELSE IF m.execute = "value" THEN [kind |-> "value", value |-> m.value]
    ELSE [kind |-> "value", value |-> JsNull]

\* A faulty test: every output counts as present.
OutputTruthyAlways(output) == TRUE

\* Line 205: if (output)
OutputTruthy(output) == output.kind = "promise" \/ Truthy(output.value)

\* Lines 155-174: a call on an external-tool plugin forks the child and
\* registers the handlers.
QueryAlfred(plugin, args, run) ==
    /\ Len(calls) < MaxCalls
    /\ Dispatch(plugin) = "alfred"
    /\ calls' = Append(calls, [NewCall(plugin, args) EXCEPT
                                  !.branch = "alfred",
                                  !.run = run.chunks,
                                  !.chunks = run.chunks,
                                  !.code = run.code])
    /\ spawned' = Append(spawned, [modulePath |-> plugin.path, args |-> args,
                                   cwd |-> plugin.path, call |-> Len(calls) + 1])
    /\ UNCHANGED <<cache, uncaught>>

\* A faulty handler: the calls of one plugin share one buffer.
ChildDataSharedBuffer(c) ==
    /\ calls[c].branch = "alfred"
    /\ calls[c].chunks # <<>>
    /\ calls' = [k \in 1..Len(calls) |->
                    IF k = c
                    THEN [calls[k] EXCEPT !.msg = @ \o Head(calls[c].chunks),
                                          !.chunks = Tail(@)]
                    ELSE IF /\ calls[k].branch = "alfred"
                            /\ calls[k].plugin = calls[c].plugin
                            /\ ~calls[k].exited
                    THEN [calls[k] EXCEPT !.msg = @ \o Head(calls[c].chunks)]
                    ELSE calls[k]]
    /\ UNCHANGED <<cache, spawned, uncaught>>

\* A faulty handler: the chunk is put in front of the buffer.
ChildDataPrepends(c) ==
    /\ calls[c].branch = "alfred"
    /\ calls[c].chunks # <<>>
    /\ calls' = [calls EXCEPT ![c].msg = Head(calls[c].chunks) \o @,
                              ![c].chunks = Tail(@)]
    /\ UNCHANGED <<cache, spawned, uncaught>>

\* Lines 176-180: a chunk arrives on the child's stdout.
ChildData(c) ==
    /\ calls[c].branch = "alfred"
    /\ calls[c].chunks # <<>>
    /\ calls' = [calls EXCEPT ![c].msg = @ \o Head(calls[c].chunks),
                              ![c].chunks = Tail(@)]
    /\ UNCHANGED <<cache, spawned, uncaught>>

\* Lines 181-191: the child's exit event.  Node may emit it while stdout
\* still holds undelivered chunks.
ChildExit(c) ==
    /\ calls[c].branch = "alfred"
    /\ ~calls[c].exited
    /\ LET call == calls[c]
           e == ExitItems(call.msg, call.plugin)
       IN IF e.threw
          THEN /\ calls' = [calls EXCEPT ![c].exited = TRUE,
                                         ![c].exitMsg = call.msg,
                                         ![c].parses = @ + e.parses,
                                         ![c].connects = @ + e.connects]
               /\ uncaught' = Append(uncaught, [call |-> c, from |-> "exit"])
               /\ UNCHANGED cache
          ELSE /\ calls' = [calls EXCEPT ![c].exited = TRUE,
                                         ![c].exitMsg = call.msg,
                                         ![c].parses = @ + e.parses,
                                         ![c].connects = @ + e.connects,
                                         ![c].writes = @ + 1,
                                         ![c].resolves = @ + 1,
                                         ![c].promise = "resolved",
                                         ![c].result = e.items]
               /\ cache' = CacheSet(cache, call.plugin, call.key, e.items)
               /\ UNCHANGED uncaught
    /\ UNCHANGED spawned

\* Lines 155-165, 194-214: a call on a native plugin (and on any plugin
\* whose schema is not 'alfred').  An exception in the executor rejects the
\* promise.
QueryNative(plugin, args, outcome) ==
    /\ Len(calls) < MaxCalls
    /\ Dispatch(plugin) = "default"
    /\ LET m == Modules(plugin.path)
           call == [NewCall(plugin, args) EXCEPT !.branch = "default"]
       IN IF ~m.loads
          THEN calls' = Append(calls, [call EXCEPT !.promise = "rejected"])
          ELSE LET output == HookOutput(m, outcome)
                   ran == IF m.execute = "function"
                          THEN <<call.key>> ELSE <<>>
               IN IF output.kind = "throw"
                  THEN calls' = Append(calls, [call EXCEPT
                                                  !.executed = ran,
                                                  !.promise = "rejected"])
                  ELSE IF OutputTruthy(output)
                  THEN calls' = Append(calls, [call EXCEPT
                                                  !.executed = ran,
                                                  !.hook = output])
                  ELSE calls' = Append(calls, [call EXCEPT
                                                  !.executed = ran,
                                                  !.resolves = 1,
                                                  !.promise = "resolved",
                                                  !.result = <<>>])
    /\ UNCHANGED <<cache, spawned, uncaught>>

HookDone == [kind |-> "done", value |-> JsNull]

\* Lines 206-210: Promise.resolve(output) settles.  There is no rejection
\* handler, and an exception in the callback rejects the promise .then
\* returned, which nothing observes.
HookThen(c) ==
    /\ calls[c].branch = "default"
    /\ calls[c].hook.kind \in {"value", "promise"}
    /\ LET call == calls[c]
           i == call.hook.value
       IN IF call.hook.kind = "promise" /\ call.hook.settle = "reject"
          THEN /\ calls' = [calls EXCEPT ![c].hook = HookDone]
               /\ uncaught' = Append(uncaught, [call |-> c, from |-> "hook"])
               /\ UNCHANGED cache
          ELSE IF ~Truthy(i) \/ ~Has(i, "items")
          THEN /\ calls' = [calls EXCEPT ![c].hook = HookDone,
                                         ![c].connects = @ + 1]
               /\ uncaught' = Append(uncaught, [call |-> c, from |-> "then"])
               /\ UNCHANGED cache
          ELSE LET items == ConnectValues(i.items, call.plugin) IN
               /\ calls' = [calls EXCEPT ![c].hook = HookDone,
                                         ![c].connects = @ + 1,
                                         ![c].writes = @ + 1,
                                         ![c].resolves = @ + 1,
                                         ![c].promise = "resolved",
                                         ![c].result = items]
               /\ cache' = CacheSet(cache, call.plugin, call.key, items)
               /\ UNCHANGED uncaught
    /\ UNCHANGED spawned

(***************************************************************************)
(* applyModuleProperties (plugins.js 69-111).                              *)
(***************************************************************************)
ScriptFilter == "alfred.workflow.input.scriptfilter"
OpenUrl == "alfred.workflow.action.openurl"

\* Lines 93-99: the forEach over plistData.objects, from the values of the
\* locals keyword and action in acc.  Assigning undefined to keyword removes
\* the key; reading o.config.keyword of an object without config throws.
RECURSIVE ScanObjects(_, _)
ScanObjects(objs, acc) ==
    IF objs = <<>> \/ acc.threw THEN acc
    ELSE LET o == Head(objs) IN
         IF o.type = ScriptFilter
         THEN IF ~Has(o, "config")
              THEN [acc EXCEPT !.threw = TRUE]
              ELSE ScanObjects(Tail(objs),
                      [acc EXCEPT !.opts =
                          IF Has(o.config, "keyword")
                          THEN Put(@, "keyword", o.config.keyword)
                          ELSE [k \in DOMAIN @ \ {"keyword"} |-> @[k]]])
         ELSE IF o.type = OpenUrl
         THEN ScanObjects(Tail(objs),
                          [acc EXCEPT !.opts = Put(@, "action", "openurl")])
         ELSE ScanObjects(Tail(objs), acc)

\* A faulty scan: the first script filter object decides the keyword, not
\* the last.
PlistDescriptorFirstWins(plugin, file) ==
    IF ~file.parses \/ ~Has(file.data, "objects")
    THEN [threw |-> TRUE, value |-> plugin]
    ELSE LET scan == ScanObjects(Reverse(file.data.objects),
                        [threw |-> FALSE,
                         opts |-> [keyword |-> "", action |-> ""]])
             newOpts == Put(scan.opts, "schema", "alfred")
         IN [threw |-> scan.threw,
             value |-> DeepAssign(DeepAssign(EmptyObject, plugin), newOpts)]

\* Lines 90-106: the descriptor made from the text of a readable info.plist;
\* plist.parse throws on a text that is no property list, and forEach on a
\* document without objects.
PlistDescriptor(plugin, file) ==
    IF ~file.parses \/ ~Has(file.data, "objects")
    THEN [threw |-> TRUE, value |-> plugin]
    ELSE LET scan == ScanObjects(file.data.objects,
                        [threw |-> FALSE,
                         opts |-> [keyword |-> "", action |-> ""]])
             newOpts == Put(scan.opts, "schema", "alfred")
         IN [threw |-> scan.threw,
             value |-> DeepAssign(DeepAssign(EmptyObject, plugin), newOpts)]

\* Lines 75-82: the descriptor made from the code module; require throws
\* when the module cannot be loaded.
ModuleDescriptor(plugin, module) ==
    IF ~module.loads THEN [threw |-> TRUE, value |-> plugin]
    ELSE LET picked == [k \in DOMAIN module.exports \cap {"keyword", "action"}
                           |-> module.exports[k]]
             newOpts == Put(picked, "schema", "dext")
         IN [threw |-> FALSE,
             value |-> DeepAssign(DeepAssign(EmptyObject, plugin), newOpts)]

\* The objects an info.plist may list.
PlistObjects ==
    { [type |-> ScriptFilter, config |-> [keyword |-> "k1"]],
      [type |-> ScriptFilter, config |-> [keyword |-> "k2"]],
      [type |-> ScriptFilter, config |-> EmptyObject],
      [type |-> ScriptFilter],
      [type |-> OpenUrl],
      [type |-> "alfred.workflow.output.notification"] }

\* The info.plist files: one that does not parse, one without an objects
\* list, and the object lists.
PlistFiles ==
    { [parses |-> FALSE, data |-> EmptyObject],
      [parses |-> TRUE, data |-> EmptyObject] }
    \cup { [parses |-> TRUE, data |-> [objects |-> objs]] :
           objs \in SeqsUpTo(PlistObjects, MaxObjects) }

\* The code modules: none that loads, or one with these exports.
CodeModules ==
    { [loads |-> FALSE, exports |-> EmptyObject] }
    \cup { [loads |-> TRUE, exports |-> e] :
           e \in { [execute |-> "function"],
                   [execute |-> "function", keyword |-> "mk"],
                   [execute |-> "function", keyword |-> "mk", action |-> "ma"],
                   [execute |-> "function", keyword |-> "", action |-> ""] } }

\* The plugin objects handed to applyModuleProperties: the three fields the
\* loader always knows, alone or with default schema, action and keyword.
PluginStubs ==
    { [path |-> PluginPath, name |-> "foo", isCore |-> FALSE],
      [path |-> PluginPath, name |-> "foo", isCore |-> FALSE,
       schema |-> "dext", action |-> "openurl", keyword |-> ""] }

\* Lines 69-71: the call; fs.access is issued.
ApplyModuleProperties ==
    /\ lpc = "called"
    /\ lpc' = "access"
    /\ UNCHANGED <<lstub, lstub0, lfs, ldesc, lalias, uncaught>>

\* Lines 71-84: the fs.access callback.
AccessCallback ==
    /\ lpc = "access"
    /\ IF ~lfs.accessible
       THEN LET d == ModuleDescriptor(lstub, lfs.module) IN
            IF d.threw
            THEN /\ lpc' = "crashed"
                 /\ uncaught' = Append(uncaught, [call |-> 0, from |-> "access"])
                 /\ UNCHANGED <<ldesc, lalias>>
            ELSE /\ lpc' = "resolved"
                 /\ ldesc' = d.value
                 /\ lalias' = FALSE
                 /\ UNCHANGED uncaught
       ELSE /\ lpc' = "read"
            /\ UNCHANGED <<ldesc, lalias, uncaught>>
    /\ UNCHANGED <<lstub, lstub0, lfs>>

\* Lines 85-108: the fs.readFile callback.
ReadFileCallback ==
    /\ lpc = "read"
    /\ IF ~lfs.readable
       THEN /\ lpc' = "resolved"
            /\ ldesc' = lstub
            /\ lalias' = TRUE
            /\ UNCHANGED uncaught
       ELSE LET d == PlistDescriptor(lstub, lfs.plist) IN
            IF d.threw
            THEN /\ lpc' = "crashed"
                 /\ uncaught' = Append(uncaught, [call |-> 0, from |-> "read"])
                 /\ UNCHANGED <<ldesc, lalias>>
            ELSE /\ lpc' = "resolved"
                 /\ ldesc' = d.value
                 /\ lalias' = FALSE
                 /\ UNCHANGED uncaught
    /\ UNCHANGED <<lstub, lstub0, lfs>>

(***************************************************************************)
(* isPluginATheme (plugins.js 45-57).                                      *)
(***************************************************************************)
ThemeMarker == "dext-theme"

\* Array.prototype.indexOf: the zero-based index of the first element equal
\* to x, and -1 when there is none.
IndexOf(list, x) ==
    LET hits == { n \in 1..Len(list) : list[n] = x }
    IN IF hits = {} THEN -1
       ELSE (CHOOSE n \in hits : \A m \in hits : n <= m) - 1

\* A faulty test: the plugin counts as a theme when the marker is missing.
IsPluginAThemeWhenMarkerMissing(manifest) ==
    IF ~manifest.loads THEN TRUE
    ELSE IF manifest.pkg = JsNull THEN TRUE
    ELSE IF ~Has(manifest.pkg, "keywords") THEN TRUE
    ELSE IF IndexOf(manifest.pkg.keywords, ThemeMarker) > -1 THEN FALSE
    ELSE TRUE

\* Lines 46-56: the value returned, given what require of
\* <directory>/package.json gives.  require throws when the file is absent or
\* is no JSON text, and reading pkg.keywords throws when the document is
\* null; the catch clause returns false either way.
IsPluginATheme(manifest) ==
    IF ~manifest.loads THEN FALSE
    ELSE IF manifest.pkg = JsNull THEN FALSE
    ELSE IF ~Has(manifest.pkg, "keywords") THEN TRUE
    ELSE IF IndexOf(manifest.pkg.keywords, ThemeMarker) > -1 THEN TRUE
    ELSE FALSE

\* The keywords a package.json may list.
Keywords == {ThemeMarker, "dext-plugin", "search"}

\* What require of a package.json gives: it fails, or it yields null, a
\* package without keywords, or a package with a keywords array.
Manifests ==
    { [loads |-> FALSE],
      [loads |-> TRUE, pkg |-> JsNull],
      [loads |-> TRUE, pkg |-> [name |-> "foo"]] }
    \cup { [loads |-> TRUE, pkg |-> [name |-> "foo", keywords |-> ks]] :
              ks \in SeqsUpTo(Keywords, MaxKeywords) }

\* Lines 45-57: one call of isPluginATheme.
CallIsPluginATheme ==
    /\ tpc = "called"
    /\ tresult' = IsPluginATheme(tpkg)
    /\ tpc' = "returned"
    /\ UNCHANGED <<tdir, tpkg>>

LoadIdle ==
    /\ lstub = EmptyObject /\ lstub0 = EmptyObject
    /\ lfs = EmptyObject /\ ldesc = EmptyObject
    /\ lalias = FALSE
    /\ lpc = "unused"

ThemeIdle ==
    /\ tdir = <<>> /\ tpkg = EmptyObject
    /\ tresult = FALSE
    /\ tpc = "unused"

ConnectIdle ==
    /\ heap = <<>> /\ rawItems = <<>> /\ outItems = <<>>
    /\ heap0 = <<>> /\ cplugin = QStub /\ cplugin0 = QStub
    /\ cpc = "unused"

QueryIdle ==
    /\ calls = <<>>
    /\ cache = [n \in ConfigNames |-> EmptyObject]
    /\ spawned = <<>>
    /\ uncaught = <<>>

Init == QueryIdle /\ ConnectIdle /\ LoadIdle /\ ThemeIdle

Next ==
    \/ \E p \in QueryPlugins, a \in QueryArgs, r \in ChildRuns :
          QueryAlfred(p, a, r) /\ UNCHANGED <<cvars, lvars, tvars>>
    \/ \E p \in QueryPlugins, a \in QueryArgs, o \in HookOutcomes :
          QueryNative(p, a, o) /\ UNCHANGED <<cvars, lvars, tvars>>
    \/ \E c \in 1..Len(calls) : ChildData(c) /\ UNCHANGED <<cvars, lvars, tvars>>
    \/ \E c \in 1..Len(calls) : ChildExit(c) /\ UNCHANGED <<cvars, lvars, tvars>>
    \/ \E c \in 1..Len(calls) : HookThen(c) /\ UNCHANGED <<cvars, lvars, tvars>>

Spec == Init /\ [][Next]_vars

(***************************************************************************)
(* connectItems as a state machine: one call on chosen arguments.          *)
(***************************************************************************)
\* The items array lists distinct objects, or the same object at every
\* index.
ConnectInit ==
    /\ \E vals \in SeqsUpTo(RawItemValues, MaxItems) :
          LET m == Materialize(<<>>, vals, <<>>) IN
          /\ heap = m.heap
          /\ rawItems \in {m.refs, [k \in 1..Len(vals) |-> m.refs[1]]}
    /\ cplugin \in Descriptors("dext") \cup Descriptors("alfred")
    /\ heap0 = heap
    /\ cplugin0 = cplugin
    /\ outItems = <<>>
    /\ cpc = "ready"
    /\ QueryIdle
    /\ LoadIdle
    /\ ThemeIdle

CallConnectItems ==
    /\ cpc = "ready"
    /\ LET c == ConnectItems(heap, rawItems, cplugin) IN
       /\ heap' = c.heap
       /\ outItems' = c.out
    /\ cpc' = "done"
    /\ UNCHANGED <<rawItems, cplugin, heap0, cplugin0>>
    /\ UNCHANGED <<qvars, lvars, tvars>>

ConnectNext == CallConnectItems

ConnectSpec == ConnectInit /\ [][ConnectNext]_vars

(***************************************************************************)
(* applyModuleProperties as a state machine: one call on a chosen plugin   *)
(* directory.                                                              *)
(***************************************************************************)
LoadInit ==
    /\ lstub \in PluginStubs
    /\ lstub0 = lstub
    /\ lfs \in [accessible : BOOLEAN, readable : BOOLEAN,
                plist : PlistFiles, module : CodeModules]
    /\ ldesc = EmptyObject
    /\ lalias = FALSE
    /\ lpc = "called"
    /\ calls = <<>>
    /\ cache = [n \in ConfigNames |-> EmptyObject]
    /\ spawned = <<>>
    /\ uncaught = <<>>
    /\ ConnectIdle
    /\ ThemeIdle

LoadNext ==
    \/ ApplyModuleProperties /\ UNCHANGED <<cvars, tvars, calls, cache, spawned>>
    \/ AccessCallback /\ UNCHANGED <<cvars, tvars, calls, cache, spawned>>
    \/ ReadFileCallback /\ UNCHANGED <<cvars, tvars, calls, cache, spawned>>

LoadSpec == LoadInit /\ [][LoadNext]_vars

(***************************************************************************)
(* isPluginATheme as a state machine: one call on a chosen directory.      *)
(***************************************************************************)
ThemeInit ==
    /\ tdir \in { q.path : q \in QueryPlugins }
    /\ tpkg \in Manifests
    /\ tresult = FALSE
    /\ tpc = "called"
    /\ QueryIdle
    /\ ConnectIdle
    /\ LoadIdle

ThemeNext == CallIsPluginATheme /\ UNCHANGED <<cvars, qvars, lvars>>

ThemeSpec == ThemeInit /\ [][ThemeNext]_vars

(***************************************************************************)
(* queryResults on args that differ in white space only.                   *)
(***************************************************************************)
\* Token sequences whose joined strings are equal, or differ in blanks only.
KeyArgs == { <<"a", "b">>, <<"a b">>, <<"a", "", "b">>, <<"a">>, <<"a", "">> }

\* One external-tool plugin and one native plugin.
KeyPlugins == {QAlfred, QValue}

\* The child prints nothing, or a document of one item in two chunks.
KeyRuns == { r \in ChildRuns : r.code = 0 /\ Len(r.chunks) # 1 }

KeyNext ==
    \/ \E p \in KeyPlugins, a \in KeyArgs, r \in KeyRuns :
          QueryAlfred(p, a, r) /\ UNCHANGED <<cvars, lvars, tvars>>
    \/ \E p \in KeyPlugins, a \in KeyArgs, o \in HookOutcomes :
          QueryNative(p, a, o) /\ UNCHANGED <<cvars, lvars, tvars>>
    \/ \E c \in 1..Len(calls) : ChildData(c) /\ UNCHANGED <<cvars, lvars, tvars>>
    \/ \E c \in 1..Len(calls) : ChildExit(c) /\ UNCHANGED <<cvars, lvars, tvars>>
    \/ \E c \in 1..Len(calls) : HookThen(c) /\ UNCHANGED <<cvars, lvars, tvars>>

KeySpec == Init /\ [][KeyNext]_vars

(***************************************************************************)
(* Properties of queryResults, checked under Spec.                         *)
(***************************************************************************)
CallIds == 1..Len(calls)

\* Call c is a call on an external-tool plugin whose child wrote a valid
\* {items: [...]} document, all of it read by the time it exited with 0.
ValidRun(c) ==
    /\ calls[c].branch = "alfred"
    /\ calls[c].exited
    /\ calls[c].code = 0
    /\ JsonParses(calls[c].exitMsg)
    /\ Truthy(JsonParse(calls[c].exitMsg))
    /\ Has(JsonParse(calls[c].exitMsg), "items")

ForksOf(cs) == { k \in 1..Len(spawned) : spawned[k].call \in cs }

\* C1: once a query of an external-tool plugin has resolved from a valid
\* document, a later query of the same plugin with the same args does not
\* fork: the two calls together account for exactly one fork event.
C1_SecondQueryDoesNotFork ==
    \A c1 \in CallIds, c2 \in CallIds :
        ( /\ c1 \in calls[c2].resolvedBefore
          /\ ValidRun(c1)
          /\ calls[c2].plugin = calls[c1].plugin
          /\ calls[c2].args = calls[c1].args )
        => Cardinality(ForksOf({c1, c2})) = 1

\* Call c resolves in this step.
Resolves(c) ==
    /\ c \in 1..Len(calls')
    /\ calls'[c].promise = "resolved"
    /\ (c \in CallIds => calls[c].promise = "pending")

ConfigOf(call) == PathBasename(call.plugin.path)

\* C2: at the moment a call resolves with a list R, the plugin's cache
\* holds an entry under the joined args and that entry is R (also for
\* R = <<>>).
C2_ResolvedValueIsCached ==
    [][ \A c \in 1..MaxCalls :
           Resolves(c) =>
              /\ calls'[c].key \in DOMAIN cache'[ConfigOf(calls'[c])]
              /\ cache'[ConfigOf(calls'[c])][calls'[c].key] = calls'[c].result
      ]_vars

ThrownBy(c) == { k \in 1..Len(uncaught) : uncaught[k].call = c }

\* C3: when the child of an external-tool query exits with an empty buffer
\* or with a buffer that is no JSON document, the call resolves to the
\* empty list and nothing is thrown.
C3_BadOutputResolvesEmpty ==
    \A c \in CallIds :
        ( /\ calls[c].branch = "alfred"
          /\ calls[c].exited
          /\ (calls[c].exitMsg = "" \/ ~JsonParses(calls[c].exitMsg)) )
        => /\ calls[c].promise = "resolved"
           /\ calls[c].result = <<>>
           /\ ThrownBy(c) = {}

\* C4: every call settles: no exception escapes the promise, and a call
\* that is still pending has an event left that will settle it.
C4_EveryCallSettles ==
    /\ uncaught = <<>>
    /\ \A c \in CallIds :
          calls[c].promise = "pending"
          => ENABLED (ChildExit(c) \/ HookThen(c))

(***************************************************************************)
(* Properties of applyModuleProperties, checked under LoadSpec.            *)
(***************************************************************************)
\* C5: applyModuleProperties never fails: nothing is thrown, and a call
\* that has not resolved yet has a step left to take.
C5_LoadAlwaysResolves ==
    /\ lpc # "crashed"
    /\ uncaught = <<>>
    /\ (lpc # "resolved" => ENABLED LoadNext)

\* The call resolved from an info.plist that was read and parsed to an
\* objects list.
ResolvedFromPlist ==
    /\ lpc = "resolved"
    /\ lfs.accessible /\ lfs.readable
    /\ lfs.plist.parses /\ Has(lfs.plist.data, "objects")

PlistObjs == lfs.plist.data.objects

IndicesOfType(objs, t) == { n \in 1..Len(objs) : objs[n].type = t }

Max(S) == CHOOSE n \in S : \A m \in S : m <= n

\* The schema and the action of a descriptor made from an info.plist, and
\* its keyword when no object is a script filter.
PlistSchemaAndAction ==
    /\ Has(ldesc, "schema") /\ ldesc.schema = "alfred"
    /\ Has(ldesc, "action")
    /\ (ldesc.action = "openurl" <=> IndicesOfType(PlistObjs, OpenUrl) # {})
    /\ (IndicesOfType(PlistObjs, OpenUrl) = {} => ldesc.action = "")
    /\ (IndicesOfType(PlistObjs, ScriptFilter) = {}
            => Has(ldesc, "keyword") /\ ldesc.keyword = "")

\* C6 as stated: the descriptor made from an info.plist has schema alfred,
\* the keyword of any script filter object of the list, action "openurl"
\* exactly when the list has an open-url object, and "" for a field with no
\* matching object.
C6_KeywordOfAnyScriptFilter ==
    ResolvedFromPlist =>
        /\ PlistSchemaAndAction
        /\ \A n \in IndicesOfType(PlistObjs, ScriptFilter) :
              (Has(PlistObjs[n], "config") /\ Has(PlistObjs[n].config, "keyword"))
              => Has(ldesc, "keyword")
                 /\ ldesc.keyword = PlistObjs[n].config.keyword

\* C6 (amended): as above, but the keyword is that of the last script
\* filter object of the list.
C6_KeywordOfLastScriptFilter ==
    ResolvedFromPlist =>
        /\ PlistSchemaAndAction
        /\ LET sf == IndicesOfType(PlistObjs, ScriptFilter) IN
           (sf # {} /\ Has(PlistObjs[Max(sf)].config, "keyword"))
           => Has(ldesc, "keyword")
              /\ ldesc.keyword = PlistObjs[Max(sf)].config.keyword

\* A descriptor was made from a list whose script filters carry different
\* keywords, with an open-url object and an object of another type.
C6_Witness ==
    /\ ResolvedFromPlist
    /\ Has(ldesc, "keyword")
    /\ \E n \in IndicesOfType(PlistObjs, ScriptFilter) :
          Has(PlistObjs[n].config, "keyword")
          /\ PlistObjs[n].config.keyword # ldesc.keyword
    /\ ldesc.keyword = "k2"

\* C7: without an accessible info.plist the descriptor has schema dext and
\* the keyword and action the code module exports, "" for a field it does
\* not export.
ExportOrEmpty(k) ==
    IF Has(lfs.module.exports, k) THEN lfs.module.exports[k] ELSE ""

C7_NativeDescriptorFromExports ==
    (lpc = "resolved" /\ ~lfs.accessible) =>
        /\ Has(ldesc, "schema") /\ ldesc.schema = "dext"
        /\ Has(ldesc, "keyword") /\ ldesc.keyword = ExportOrEmpty("keyword")
        /\ Has(ldesc, "action") /\ ldesc.action = ExportOrEmpty("action")

\* C8: every descriptor resolved has a schema, dext or alfred; when
\* info.plist is accessible but cannot be read it is dext with empty
\* keyword and action.
C8_SchemaAlwaysResolved ==
    lpc = "resolved" =>
        /\ Has(ldesc, "schema") /\ ldesc.schema \in {"dext", "alfred"}
        /\ (lfs.accessible /\ ~lfs.readable) =>
              /\ ldesc.schema = "dext"
              /\ Has(ldesc, "keyword") /\ ldesc.keyword = ""
              /\ Has(ldesc, "action") /\ ldesc.action = ""

(***************************************************************************)
(* Properties of connectItems, checked under ConnectSpec.                  *)
(***************************************************************************)
\* C9: connectItems leaves every object it was given as it was (the raw
\* items, their icon objects, the plugin) and returns new objects.
C9_InputsNotMutated ==
    cpc = "done" =>
        /\ \A r \in 1..Len(heap0) : heap[r] = heap0[r]
        /\ cplugin = cplugin0
        /\ \A k \in 1..Len(outItems) : outItems[k] \notin 1..Len(heap0)

ItemMeta == {"keyword", "action"}

\* C10: connectItems returns one item per raw item, in the same order; the
\* item at index k is what connectItems makes of raw item k alone, and its
\* fields other than icon.path, keyword and action are those of raw item k.
C10_LengthOrderAndFields ==
    cpc = "done" =>
        /\ Len(outItems) = Len(rawItems)
        /\ \A k \in 1..Len(outItems) :
              LET o == Deref(heap, outItems[k])
                  i == Deref(heap0, rawItems[k])
              IN /\ o = ConnectValues(<<i>>, cplugin0)[1]
                 /\ DOMAIN o \ ItemMeta = DOMAIN i \ ItemMeta
                 /\ \A f \in DOMAIN i \ (ItemMeta \cup {"icon"}) : o[f] = i[f]
                 /\ Has(i, "icon") =>
                       /\ DOMAIN o.icon \ {"path"} = DOMAIN i.icon \ {"path"}
                       /\ \A f \in DOMAIN i.icon \ {"path"} :
                             o.icon[f] = i.icon[f]

\* connectItems has returned from a call on two different raw items.
C10_Witness ==
    /\ cpc = "done"
    /\ Len(rawItems) = 2
    /\ Deref(heap0, rawItems[1]) # Deref(heap0, rawItems[2])
    /\ Deref(heap, outItems[1]).title = "B"
    /\ Has(Deref(heap0, rawItems[2]), "icon")

\* The raw item at index k as it was before the call, and the item
\* returned at index k.
RawItem(k) == Deref(heap0, rawItems[k])
OutItem(k) == Deref(heap, outItems[k])

\* C11: the icon rule.  A non-empty icon.path that is no URL comes out
\* resolved against plugin.path (a relative path without dots is the plugin
\* path followed by it, an absolute path is itself); a URL comes out
\* unchanged; without an icon, or with an empty or missing icon.path, the
\* returned item has no non-empty icon.path.
C11_IconRule ==
    cpc = "done" =>
        \A k \in 1..Len(rawItems) :
            LET i == RawItem(k)
                o == OutItem(k)
            IN IF Has(i, "icon") /\ TruthyPath(i.icon, "path")
               THEN LET p == i.icon.path IN
                    /\ Has(o, "icon") /\ Has(o.icon, "path")
                    /\ IsUrl(p) => o.icon.path = p
                    /\ ~IsUrl(p) =>
                          /\ o.icon.path = PathResolve(cplugin0.path, p)
                          /\ IsAbsolute(p) => o.icon.path = p
                          /\ (~IsAbsolute(p) /\ p[1] \notin {".", ".."}) =>
                                o.icon.path = cplugin0.path \o p
                          /\ p = <<".", "icon.png">> =>
                                o.icon.path = cplugin0.path \o <<"icon.png">>
               ELSE IF Has(i, "icon")
                    THEN Has(o, "icon") /\ ~TruthyPath(o.icon, "path")
                    ELSE ~Has(o, "icon")

\* connectItems has returned from a call on an item with a relative icon
\* path and an item with a URL as icon path.
C11_Witness ==
    /\ cpc = "done"
    /\ Len(rawItems) = 2
    /\ Has(RawItem(1), "icon") /\ Has(RawItem(1).icon, "path")
    /\ Has(RawItem(2), "icon") /\ Has(RawItem(2).icon, "path")
    /\ RawItem(1).icon.path = <<".", "icon.png">>
    /\ OutItem(1).icon.path = <<"", "plugins", "foo", "icon.png">>
    /\ IsUrl(RawItem(2).icon.path)
    /\ OutItem(2).icon.path = RawItem(2).icon.path

\* C12: for keyword and for action alike, a non-empty value of the plugin
\* is the value of every returned item, and with an empty or missing value
\* of the plugin the returned item has what the raw item had (nothing, if
\* it had nothing).
C12_KeywordActionInheritance ==
    cpc = "done" =>
        \A k \in 1..Len(rawItems), f \in ItemMeta :
            LET i == RawItem(k)
                o == OutItem(k)
            IN IF TruthyStr(cplugin0, f)
               THEN Has(o, f) /\ o[f] = cplugin0[f]
               ELSE /\ Has(o, f) <=> Has(i, f)
                    /\ Has(i, f) => o[f] = i[f]

\* connectItems has returned from a call with a plugin keyword and no
\* plugin action on an item that had a keyword and an action of its own.
C12_Witness ==
    /\ cpc = "done"
    /\ Len(rawItems) >= 1
    /\ TruthyStr(cplugin0, "keyword") /\ ~TruthyStr(cplugin0, "action")
    /\ Has(RawItem(1), "keyword") /\ RawItem(1).keyword # cplugin0.keyword
    /\ OutItem(1).keyword = cplugin0.keyword
    /\ Has(RawItem(1), "action") /\ OutItem(1).action = RawItem(1).action


(***************************************************************************)
(* Claims about the cache namespace and the native falsy branch.           *)
(***************************************************************************)
\* The entry plugin p has under the query string q, EmptyObject when absent.
EntryOf(c, p, q) ==
    LET conf == c[PathBasename(p.path)]
    IN IF q \in DOMAIN conf THEN [value |-> conf[q]] ELSE EmptyObject

\* C13: cache entries of different plugins never collide: a cache write made
\* by a query of one plugin never creates or changes the entry that a plugin
\* with a different plugin.path has under any query string.
C13_PluginsNeverCollide ==
    [][\A c \in CallIds :
          (Resolves(c) /\ cache' # cache) =>
              \A p \in QueryPlugins, a \in QueryArgs :
                  p.path # calls[c].plugin.path =>
                      EntryOf(cache', p, Join(a)) = EntryOf(cache, p, Join(a))]_vars

\* C14: a native plugin whose execute export is a plain falsy value (not a
\* function) resolves to the empty list at once: the call is resolved with []
\* in every state in which it exists, connectItems was not called, nothing
\* was executed and nothing awaits.
C14_FalsyExportResolvesEmpty ==
    \A c \in CallIds :
        LET call == calls[c]
            m == Modules(call.plugin.path)
        IN (call.branch = "default" /\ m.loads /\ m.execute = "absent") =>
               /\ call.promise = "resolved"
               /\ call.result = <<>>
               /\ call.connects = 0
               /\ call.executed = <<>>
               /\ call.hook = NoHook

C14_Witness ==
    \E c \in CallIds :
        /\ calls[c].plugin = QStub
        /\ calls[c].promise = "resolved"
        /\ calls[c].result = <<>>
        /\ calls[c].connects = 0


(***************************************************************************)
(* Properties of isPluginATheme, checked under ThemeSpec.                  *)
(***************************************************************************)
\* The package.json could be loaded, lists keywords, and the theme marker is
\* one of them.
ListsMarker ==
    /\ tpkg.loads
    /\ tpkg.pkg # JsNull
    /\ Has(tpkg.pkg, "keywords")
    /\ \E n \in 1..Len(tpkg.pkg.keywords) : tpkg.pkg.keywords[n] = ThemeMarker

\* The package.json could be loaded and is an object without keywords.
ListsNoKeywords ==
    /\ tpkg.loads
    /\ tpkg.pkg # JsNull
    /\ ~Has(tpkg.pkg, "keywords")

\* C15 as stated: isPluginATheme returns true if the manifest is unreadable
\* or absent, or declares no keywords, or its keywords lack 'dext-theme'; it
\* returns false only when the manifest is readable and its keywords contain
\* the marker; it never throws.
C15_TrueUnlessMarkerListed ==
    tpc # "called" =>
        /\ tpc = "returned"
        /\ tresult = ~ListsMarker

\* C15, amended: isPluginATheme returns true exactly when the manifest can
\* be loaded and either declares no keywords or lists 'dext-theme' among
\* them; it returns false when the manifest is unreadable or absent, is
\* null, or lists keywords without the marker; it never throws.
C15_TrueIffMarkerOrNoKeywords ==
    tpc # "called" =>
        /\ tpc = "returned"
        /\ tresult = (ListsMarker \/ ListsNoKeywords)

C15_Witness ==
    /\ tpc = "returned"
    /\ ListsMarker
    /\ Len(tpkg.pkg.keywords) = 2
    /\ tpkg.pkg.keywords[1] # ThemeMarker
    /\ tresult = TRUE


(***************************************************************************)
(* Properties of the external-tool branch, checked under Spec.             *)
(***************************************************************************)
\* The first n chunks of a run, joined in the order the child wrote them.
RECURSIVE Concat(_, _)
Concat(chunks, n) ==
    IF n = 0 THEN "" ELSE Concat(chunks, n - 1) \o chunks[n]

\* The number of chunks of call c delivered so far.
Delivered(c) == Len(calls[c].run) - Len(calls[c].chunks)

\* What C16 says of call c apart from the number of parses: nothing is
\* resolved, written or parsed before the exit event, the buffer is the
\* chunks delivered so far in arrival order, the text handed to the parser is
\* the whole buffer as it was at exit, and resolve is called at most once.
BufferedUntilExit(c) ==
    LET call == calls[c] IN
    /\ call.msg = Concat(call.run, Delivered(c))
    /\ ~call.exited =>
          /\ call.promise = "pending"
          /\ call.writes = 0
          /\ call.parses = 0
          /\ call.resolves = 0
    /\ call.exited =>
          /\ \E n \in 0..Delivered(c) : call.exitMsg = Concat(call.run, n)
          /\ (call.promise = "resolved" /\ call.exitMsg # "") =>
                /\ JsonParses(call.exitMsg)
                /\ LET output == JsonParse(call.exitMsg) IN
                   call.result = IF Truthy(output)
                                 THEN ConnectValues(output.items, call.plugin)
                                 ELSE <<>>
    /\ call.resolves <= 1
    /\ call.writes <= 1

\* C16 as stated: for an external-tool plugin nothing is resolved or written
\* to the cache before the child's exit event, chunks are appended in arrival
\* order to one buffer, the buffer is parsed exactly once, after exit, as a
\* whole, and the promise resolves at most once.
C16_ParsedExactlyOnceAfterExit ==
    \A c \in CallIds :
        calls[c].branch = "alfred" =>
            /\ BufferedUntilExit(c)
            /\ calls[c].exited => calls[c].parses = 1

\* C16, amended: as stated, except that the buffer is parsed exactly once
\* after exit when it is not empty, and not at all when the child wrote
\* nothing before its exit event.
C16_ParsedOnceAfterExitUnlessEmpty ==
    \A c \in CallIds :
        calls[c].branch = "alfred" =>
            /\ BufferedUntilExit(c)
            /\ calls[c].exited =>
                  calls[c].parses = IF calls[c].exitMsg = "" THEN 0 ELSE 1

C16_Witness ==
    \E c \in CallIds :
        /\ calls[c].branch = "alfred"
        /\ Len(calls[c].run) = 2
        /\ calls[c].exited
        /\ calls[c].exitMsg = calls[c].run[1] \o calls[c].run[2]
        /\ calls[c].parses = 1
        /\ calls[c].promise = "resolved"
        /\ calls[c].result # <<>>


(***************************************************************************)
(* Concurrent queries of one plugin, checked under Spec.                   *)
(***************************************************************************)
\* Call c was still pending when its executor returned.
AsyncCall(c) == calls[c].branch = "alfred" \/ calls[c].hook.kind # "none"

\* Calls c1 and c2 are queries of the same plugin with the same args, and c1
\* was pending when c2 was made and left pending.
InFlightTogether(c1, c2) ==
    /\ c1 < c2
    /\ calls[c1].plugin = calls[c2].plugin
    /\ calls[c1].args = calls[c2].args
    /\ AsyncCall(c1) /\ AsyncCall(c2)
    /\ c1 \notin calls[c2].resolvedBefore

\* Call c has a child or a hook invocation of its own, and what it resolved
\* with comes from the output of that child alone.
OwnChildOrHook(c) ==
    LET call == calls[c] IN
    IF call.branch = "alfred"
    THEN /\ Cardinality(ForksOf({c})) = 1
         /\ call.executed = <<>>
         /\ call.promise = "resolved" =>
               /\ \E n \in 0..Len(call.run) : call.exitMsg = Concat(call.run, n)
               /\ call.result = ExitItems(call.exitMsg, call.plugin).items
    ELSE /\ ForksOf({c}) = {}
         /\ Modules(call.plugin.path).execute = "function" =>
               call.executed = <<call.key>>

\* In this step call c resolves with the items of its own output, the cache
\* entry of its key becomes exactly that result, and the call d it overlaps
\* with is left as it was.
ResolvesAlone(c, d) ==
    Resolves(c) =>
        /\ calls'[d] = calls[d]
        /\ calls[c].branch = "default" =>
              calls'[c].result =
                  ConnectValues(calls[c].hook.value.items, calls[c].plugin)
        /\ calls[c].key \in DOMAIN cache'[ConfigOf(calls[c])]
        /\ cache'[ConfigOf(calls[c])][calls[c].key] = calls'[c].result

\* C17: two queries of the same plugin with the same args that are in flight
\* at the same time do not disturb each other in any interleaving: each has
\* its own child (or its own single hook invocation), each resolves with its
\* own result, and when the later one resolves the cache entry of the key is
\* exactly its result, whole.
C17_ConcurrentQueriesAreIsolated ==
    /\ [](\A c1, c2 \in CallIds :
             InFlightTogether(c1, c2) =>
                 /\ OwnChildOrHook(c1) /\ OwnChildOrHook(c2)
                 /\ calls[c1].resolves <= 1 /\ calls[c2].resolves <= 1)
    /\ [][\A c1, c2 \in CallIds :
             InFlightTogether(c1, c2) =>
                 ResolvesAlone(c1, c2) /\ ResolvesAlone(c2, c1)]_vars

\* Two overlapping queries of the external-tool plugin resolved with
\* different results, and the cache holds the result of the first one, which
\* therefore completed last.
C17_Witness ==
    \E c1, c2 \in CallIds :
        /\ InFlightTogether(c1, c2)
        /\ calls[c1].branch = "alfred"
        /\ calls[c1].promise = "resolved" /\ calls[c2].promise = "resolved"
        /\ calls[c1].result # <<>> /\ calls[c2].result = <<>>
        /\ cache[ConfigOf(calls[c1])][calls[c1].key] = calls[c1].result


(***************************************************************************)
(* Dispatch on plugin.schema, checked under Spec.                          *)
(***************************************************************************)
\* The fork() events of call c.
SpawnsOf(c) == { k \in 1..Len(spawned) : spawned[k].call = c }

\* C18: dispatch is exclusive per schema.  A call on a plugin of schema
\* 'alfred' forks exactly one child, with cwd = plugin.path and the args
\* tokens as its arguments, and never runs execute in-process; a call on a
\* plugin of any other schema, or of none, forks nothing, and runs execute,
\* when the module exports a function, exactly once with args.join(' ').
C18_DispatchIsExclusive ==
    \A c \in CallIds :
        LET call == calls[c]
            p == call.plugin
        IN IF Has(p, "schema") /\ p.schema = "alfred"
           THEN /\ Cardinality(SpawnsOf(c)) = 1
                /\ \A k \in SpawnsOf(c) :
                      /\ spawned[k].cwd = p.path
                      /\ spawned[k].modulePath = p.path
                      /\ spawned[k].args = call.args
                /\ call.executed = <<>>
                /\ call.hook = NoHook
           ELSE /\ SpawnsOf(c) = {}
                /\ call.run = <<>> /\ ~call.exited
                /\ LET m == Modules(p.path) IN
                   IF m.loads /\ m.execute = "function"
                   THEN call.executed = <<Join(call.args)>>
                   ELSE call.executed = <<>>

\* A call on the external-tool plugin and a call on the native plugin whose
\* execute is a function have been dispatched, each with args of two tokens.
C18_Witness ==
    /\ Len(spawned) = 1
    /\ \E c1, c2 \in CallIds :
          /\ calls[c1].plugin = QAlfred
          /\ calls[c1].args = <<"a", "b">>
          /\ spawned[1] = [modulePath |-> QAlfred.path, args |-> <<"a", "b">>,
                           cwd |-> QAlfred.path, call |-> c1]
          /\ calls[c2].plugin = QDext
          /\ calls[c2].args = <<"a", "b">>
          /\ calls[c2].executed = <<"a b">>


(***************************************************************************)
(* The plugin descriptor as a frame.                                       *)
(***************************************************************************)
DescriptorFields == {"path", "name", "isCore", "schema", "keyword", "action"}

\* The values descriptor p has for the fields of a descriptor.
FieldsOf(p) == [f \in DOMAIN p \cap DescriptorFields |-> p[f]]

\* C19: a plugin descriptor is immutable once resolved: no queryResults or
\* connectItems call changes the path, name, isCore, schema, keyword or
\* action of the descriptor passed to it, and applyModuleProperties leaves
\* the stub passed in unchanged and resolves with a clone of it, a new
\* object.
C19_DescriptorImmutable ==
    /\ \A c \in CallIds :
          \E p \in QueryPlugins : FieldsOf(calls[c].plugin) = FieldsOf(p)
    /\ cpc = "done" => FieldsOf(cplugin) = FieldsOf(cplugin0)
    /\ lstub = lstub0
    /\ lpc = "resolved" => ~lalias


(***************************************************************************)
(* The cache key, checked under KeySpec.                                   *)
(***************************************************************************)
\* The string JavaScript's join(' ') gives for each token sequence of
\* KeyArgs, written out.
JoinedString(args) ==
    CASE args = <<"a", "b">> -> "a b"
      [] args = <<"a b">> -> "a b"
      [] args = <<"a", "", "b">> -> "a  b"
      [] args = <<"a">> -> "a"
      [] args = <<"a", "">> -> "a "

\* The calls of the plugin at path that have written the cache.
WritersOf(path) ==
    { c \in CallIds : calls[c].plugin.path = path /\ calls[c].writes > 0 }

\* C20: the cache key queryResults writes is exactly args.join(' '),
\* untrimmed and with every blank kept: the entries a plugin has are the
\* joined strings of the queries that wrote, each holding the result of one
\* of them, so two queries write the same entry if and only if their joined
\* strings are equal character for character.
C20_KeyIsRawJoinedArgs ==
    \A p \in KeyPlugins :
        LET conf == cache[PathBasename(p.path)] IN
        /\ DOMAIN conf = { JoinedString(calls[c].args) : c \in WritersOf(p.path) }
        /\ \A c \in WritersOf(p.path) :
              \E d \in WritersOf(p.path) :
                  /\ JoinedString(calls[d].args) = JoinedString(calls[c].args)
                  /\ conf[JoinedString(calls[c].args)] = calls[d].result

\* Two queries whose joined strings differ by one blank have an entry each.
C20_Witness ==
    /\ WritersOf(QAlfred.path) = {1, 2}
    /\ calls[1].args = <<"a", "b">>
    /\ calls[2].args = <<"a", "", "b">>
    /\ DOMAIN cache[PathBasename(QAlfred.path)] = {"a b", "a  b"}

=============================================================================
